---- MODULE Spec2Model ----
(***************************************************************************)
(* Token Automation Manager: the action executor (ActionExecutor) and the  *)
(* queue manager (ActionQueueManager) as a state machine.                  *)
(*                                                                         *)
(* A run of executeQueue is an async function: it is a coroutine that is   *)
(* suspended in an executor call of the host (movement, attack, item use)  *)
(* or in the pacing timer, and runs without interruption between two       *)
(* suspensions (JavaScript runs a handler to its next await).  Every       *)
(* action of the model is one such uninterrupted stretch of code.          *)
(***************************************************************************)
EXTENDS Integers, Sequences, FiniteSets, TLC

(***************************************************************************)
(* Bounds of the model.  Spec follows one run over the stored queues that  *)
(* are at most MaxEdits field changes away from the default queue of       *)
(* MaxLen actions; SpecConc follows ConcRuns runs that may overlap, over   *)
(* the shorter queues given by ConcLen and ConcEdits.  SpecEval follows    *)
(* one run over the queues of EvalLen actions in which one action carries  *)
(* any of the conditions, for the actors of at most MaxHp hit points, and  *)
(* SpecType one run over the queues of EvalLen actions in which one action *)
(* has any type.  SpecQueue follows MaxOps operations of the queue manager *)
(* on stored queues of QueueLen actions, and SpecEdit one run with EditOps *)
(* operations of the queue manager at any moment.                          *)
(***************************************************************************)
MaxLen == 3        \* actions in a stored queue (Spec)
MaxEdits == 2      \* field changes between a stored queue and the default one (Spec)
MaxRuns == 1       \* accepted executeQueue calls (Spec)
ConcLen == 2       \* actions in a stored queue (SpecConc)
ConcEdits == 1     \* field changes between a stored queue and the default one (SpecConc)
ConcRuns == 2      \* accepted executeQueue calls (SpecConc)
MaxStops == 1      \* stopExecution calls that find a run
MaxBusy == 1       \* executeQueue calls that find a run active
EvalLen == 2       \* actions in a stored queue (SpecEval)
MaxHp == 4         \* hit point maximum of an actor (SpecEval)
QueueLen == 2      \* actions in a stored queue (SpecQueue, SpecEdit)
MaxOps == 3        \* queue manager operations (SpecQueue)
EditOps == 1       \* queue manager operations (SpecEdit)

NULL == "null"
NoId == 0          \* onSuccess / onFailure of an action without branch target

Tokens == {"T1", "T2"}

(***************************************************************************)
(* ActionType and ConditionType of action-queue.js.                        *)
(***************************************************************************)
ActionType ==
  [MOVEMENT |-> "movement", ATTACK |-> "attack", SPELL |-> "spell", ITEM |-> "item",
   BONUS_ACTION |-> "bonusAction", REACTION |-> "reaction", END_TURN |-> "endTurn"]

ConditionType ==
  [ALWAYS |-> "always", TARGET_IN_RANGE |-> "targetInRange",
   RESOURCE_AVAILABLE |-> "resourceAvailable", HP_THRESHOLD |-> "hpThreshold",
   ATTACK_HIT |-> "attackHit", ATTACK_MISS |-> "attackMiss",
   SAVE_SUCCESS |-> "saveSuccess", SAVE_FAILURE |-> "saveFailure",
   HAS_ADVANTAGE |-> "hasAdvantage", HAS_DISADVANTAGE |-> "hasDisadvantage"]

(***************************************************************************)
(* ActionQueueItem: the fields the executor reads, and data, the object    *)
(* of the options of the action, "{}" when it has none.  conditions.value  *)
(* is "" when the condition has no value.  The default item is what        *)
(* addAction stores for an attack created without options: order is the    *)
(* position in the queue, enabled, condition ALWAYS, no branch target.     *)
(***************************************************************************)
NoData == "{}"

ActionQueueItem(id, type, order, enabled, ctype, cvalue, onSuccess, onFailure) ==
  [id |-> id, type |-> type, order |-> order, enabled |-> enabled,
   conditions |-> [type |-> ctype, value |-> cvalue],
   data |-> NoData,
   onSuccess |-> onSuccess, onFailure |-> onFailure]

DefaultItem(i) ==
  ActionQueueItem(i, ActionType.ATTACK, i - 1, TRUE, ConditionType.ALWAYS, "", NoId, NoId)

DefaultQueue(n) == [i \in 1..n |-> DefaultItem(i)]

\* The values an editor can give to one field of a stored action.
EditTypes == {ActionType.ATTACK, ActionType.ITEM, ActionType.END_TURN}
EditConditions ==
  {[type |-> ConditionType.ALWAYS, value |-> ""],
   [type |-> ConditionType.ATTACK_HIT, value |-> ""],
   [type |-> ConditionType.ATTACK_MISS, value |-> ""],
   [type |-> ConditionType.HP_THRESHOLD, value |-> "< 50"]}

(***************************************************************************)
(* The conditions SpecEval goes through: every ConditionType and a type    *)
(* that is none of them, the threshold values of the four operators, a     *)
(* value that is no threshold, the two kinds of resource reference and a   *)
(* value that is neither.                                                  *)
(***************************************************************************)
ConditionTypes == {ConditionType[f] : f \in DOMAIN ConditionType}

\* Every ActionType and a type that is none of them (SpecType).
AllTypes == {ActionType[f] : f \in DOMAIN ActionType} \cup {"unknown"}

ThresholdValues == {"< 50", "<= 50", "> 50", ">= 50"}

Condition(type, value) == [type |-> type, value |-> value]

AllConditions ==
  {Condition(ty, "") : ty \in ConditionTypes \cup {"unknown"}}
  \cup {Condition(ConditionType.HP_THRESHOLD, v) : v \in ThresholdValues \cup {"half"}}
  \cup {Condition(ConditionType.RESOURCE_AVAILABLE, v) :
          v \in {"spell-slot-3", "resource-primary", "rage"}}

EditsOf(q) ==
  {q}
  \cup {[q EXCEPT ![i].type = v] : i \in DOMAIN q, v \in EditTypes}
  \cup {[q EXCEPT ![i].order = v] : i \in DOMAIN q, v \in 0..(Len(q) - 1)}
  \cup {[q EXCEPT ![i].enabled = FALSE] : i \in DOMAIN q}
  \cup {[q EXCEPT ![i].conditions = v] : i \in DOMAIN q, v \in EditConditions}
  \cup {[q EXCEPT ![i].onSuccess = v] : i \in DOMAIN q, v \in DOMAIN q}
  \cup {[q EXCEPT ![i].onFailure = v] : i \in DOMAIN q, v \in DOMAIN q}

RECURSIVE Within(_, _)
Within(S, k) == IF k = 0 THEN S ELSE Within(UNION {EditsOf(q) : q \in S}, k - 1)

\* The stored queues of n actions at most k field changes away from the default.
Queues(n, k) == Within({DefaultQueue(n)}, k)

VARIABLES
  flags,            \* token.document flag 'actionQueue': [set, enabled, actions]
  executing,        \* ActionExecutor.executing
  currentWorkflow,  \* ActionExecutor.currentWorkflow: NoWorkflow or [owner, token, results]
  runs,             \* the accepted executeQueue invocations, in start order
  budget,           \* what the behaviour may still do: [runs, stops, busy, ops]
  actors,           \* token.actor.system of each token: [hp, max, slots, pool]
  lastId,           \* the number of ids foundry.utils.randomID() has given out
  move,             \* one executeMovement call: its arguments, the token, the result
  combat,           \* the combat: [started, round, combatants]
  rolling,          \* InitiativeRoller.rolling
  batch,            \* the rollForMultipleCombatants call in progress, or NoBatch
  timers,           \* the setTimeout callbacks of onCombatantCreate not yet run
  calls             \* the addAction calls that wait for their flag write

\* The movement system, the initiative roller and the manager calls in flight.
others == <<move, combat, rolling, batch, timers, calls>>

vars == <<flags, executing, currentWorkflow, runs, budget, actors, lastId, others>>

\* The flag of a token: set is FALSE while the token has no actionQueue flag.
Flag(enabled, actions) == [set |-> TRUE, enabled |-> enabled, actions |-> actions]
NoFlag == [set |-> FALSE, enabled |-> FALSE, actions |-> <<>>]

\* currentWorkflow = null.
NoWorkflow == [owner |-> 0, token |-> NULL, results |-> <<>>]

(***************************************************************************)
(* The actor of a token, as far as the conditions name it: hp and max are  *)
(* system.attributes.hp.value and .max, slots is system.spells.spell3      *)
(* .value and pool is system.resources.primary.value.                      *)
(***************************************************************************)
Actor(hp, max, slots, pool) == [hp |-> hp, max |-> max, slots |-> slots, pool |-> pool]

DefaultActor == Actor(MaxHp, MaxHp, 1, 1)

ActorStates == {Actor(hp, MaxHp, slots, pool) : hp \in 0..MaxHp, slots \in 0..1, pool \in 0..1}

(***************************************************************************)
(* ActionQueueManager (action-queue.js).                                   *)
(***************************************************************************)
getQueue(t) == IF ~flags[t].set THEN <<>> ELSE flags[t].actions

isQueueEnabled(t) == flags[t].set /\ flags[t].enabled = TRUE

\* Array.prototype.sort with (a, b) => a.order - b.order: a stable sort.
RECURSIVE InsertByOrder(_, _)
InsertByOrder(s, a) ==
  IF s = <<>> THEN <<a>>
  ELSE IF s[Len(s)].order <= a.order THEN Append(s, a)
  ELSE Append(InsertByOrder(SubSeq(s, 1, Len(s) - 1), a), s[Len(s)])

RECURSIVE SortByOrder(_)
SortByOrder(q) ==
  IF q = <<>> THEN <<>>
  ELSE InsertByOrder(SortByOrder(SubSeq(q, 1, Len(q) - 1)), q[Len(q)])

\* A variant that returns the queue as stored.
getSortedActionsUnsorted(t) == getQueue(t)

getSortedActions(t) == SortByOrder(getQueue(t))

IsEnabledAction(a) == a.enabled

\* A variant that keeps the disabled actions.
getEnabledActionsUnfiltered(t) == getSortedActions(t)

getEnabledActions(t) == SelectSeq(getSortedActions(t), IsEnabledAction)

(***************************************************************************)
(* Outcomes.  hit is "true", "false" or "undef" (the outcome has no hit    *)
(* field); type is NULL when the outcome has no type field.                *)
(***************************************************************************)
Outcome(success, type, hit) == [success |-> success, type |-> type, hit |-> hit]

Failure == Outcome(FALSE, NULL, "undef")

\* AttackSystem.executeAttack: what the call can resolve to.
AttackOutcomes ==
  {Outcome(TRUE, "attack", "true"), Outcome(TRUE, "attack", "false"),
   Outcome(TRUE, "item", "undef"), Failure}

\* MovementSystem.executeMovement.
MovementOutcomes == {Outcome(TRUE, "movement", "undef"), Failure}

\* ActionExecutor.executeItem once fromUuid is awaited.
ItemOutcomes == {Outcome(TRUE, NULL, "undef"), Failure}

ExecutorOutcomes(type) ==
  IF type \in {ActionType.ATTACK, ActionType.SPELL} THEN AttackOutcomes
  ELSE IF type = ActionType.MOVEMENT THEN MovementOutcomes
  ELSE ItemOutcomes

(***************************************************************************)
(* The results Map of a workflow: entries in insertion order.  Map.set on  *)
(* a key that is present replaces the value and keeps the position.        *)
(***************************************************************************)
RECURSIVE FindEntry(_, _, _)
FindEntry(results, id, i) ==
  IF i > Len(results) THEN 0
  ELSE IF results[i].id = id THEN i
  ELSE FindEntry(results, id, i + 1)

MapSet(results, id, res) ==
  LET i == FindEntry(results, id, 1)
      e == [id |-> id, res |-> res]
  IN IF i = 0 THEN Append(results, e) ELSE [results EXCEPT ![i] = e]

\* actions.find(a => a.id === id): the index of the first match, 0 if none.
RECURSIVE FindAction(_, _, _)
FindAction(actions, id, i) ==
  IF i > Len(actions) THEN 0
  ELSE IF actions[i].id = id THEN i
  ELSE FindAction(actions, id, i + 1)

(***************************************************************************)
(* Condition evaluation.  The value is "true", "false" or "throw" (the     *)
(* evaluation raises a TypeError).  wf is this.currentWorkflow.            *)
(* A workflow has the fields token, actions, results and context, and no   *)
(* field actor: this.currentWorkflow.actor is undefined.                   *)
(***************************************************************************)
IsSpellSlotRef(v) == v \in {"spell-slot-3"}
IsResourceRef(v) == v \in {"resource-primary"}

checkResourceAvailable(action, wf) ==
  IF action.conditions.value = "" THEN "true"
  ELSE IF wf = NoWorkflow THEN "throw"
  ELSE IF IsSpellSlotRef(action.conditions.value) THEN "throw"
  ELSE IF IsResourceRef(action.conditions.value) THEN "throw"
  ELSE "true"

checkHPThreshold(action, wf) ==
  IF action.conditions.value = "" THEN "true"
  ELSE "throw"

\* A variant that finds the last attack entry from index i on.
RECURSIVE LastAttack(_, _)
LastAttack(results, i) ==
  IF i > Len(results) THEN 0
  ELSE LET j == LastAttack(results, i + 1)
       IN IF j # 0 THEN j
          ELSE IF results[i].res.type = "attack" THEN i
          ELSE 0

\* Lines 327-328: the first entry of the ledger, from index i on, whose outcome
\* has type 'attack'; 0 if there is none.
RECURSIVE FirstAttack(_, _)
FirstAttack(results, i) ==
  IF i > Len(results) THEN 0
  ELSE IF results[i].res.type = "attack" THEN i
  ELSE FirstAttack(results, i + 1)

\* A variant that fails closed: false when the ledger has no attack entry.
checkPreviousAttackResultFailClosed(action, wf) ==
  IF wf = NoWorkflow THEN "throw"
  ELSE LET i == FirstAttack(wf.results, 1)
       IN IF i = 0 THEN "false"
          ELSE IF action.conditions.type = ConditionType.ATTACK_HIT
               THEN (IF wf.results[i].res.hit = "true" THEN "true" ELSE "false")
               ELSE (IF wf.results[i].res.hit = "false" THEN "true" ELSE "false")

checkPreviousAttackResult(action, wf) ==
  IF wf = NoWorkflow THEN "throw"
  ELSE LET i == FirstAttack(wf.results, 1)
       IN IF i = 0 THEN "true"
          ELSE IF action.conditions.type = ConditionType.ATTACK_HIT
               THEN (IF wf.results[i].res.hit = "true" THEN "true" ELSE "false")
               ELSE (IF wf.results[i].res.hit = "false" THEN "true" ELSE "false")

shouldExecute(action, wf) ==
  LET ty == action.conditions.type
  IN IF ty = ConditionType.ALWAYS THEN "true"
     ELSE IF ty = ConditionType.TARGET_IN_RANGE THEN "true"
     ELSE IF ty = ConditionType.RESOURCE_AVAILABLE THEN checkResourceAvailable(action, wf)
     ELSE IF ty = ConditionType.HP_THRESHOLD THEN checkHPThreshold(action, wf)
     ELSE IF ty \in {ConditionType.ATTACK_HIT, ConditionType.ATTACK_MISS}
          THEN checkPreviousAttackResult(action, wf)
     ELSE "true"

(***************************************************************************)
(* executeAction up to its first suspension: "call" when an executor of    *)
(* the host has been called and the run waits for it, otherwise the        *)
(* outcome executeAction resolves to at once.  executeMovement and         *)
(* executeAttack read this.currentWorkflow.token to build the call: with   *)
(* no workflow that read raises, and executeAction turns it into a failed  *)
(* outcome.  executeItem does not read the workflow.                       *)
(***************************************************************************)
executeAction(action, wf) ==
  IF action.type \in {ActionType.MOVEMENT, ActionType.ATTACK, ActionType.SPELL}
  THEN (IF wf = NoWorkflow THEN Failure ELSE "call")
  ELSE IF action.type = ActionType.ITEM THEN "call"
  ELSE IF action.type = ActionType.END_TURN THEN Outcome(TRUE, NULL, "undef")
  ELSE Failure

Suspends(action, wf) ==
  \/ action.type = ActionType.ITEM
  \/ action.type \in {ActionType.MOVEMENT, ActionType.ATTACK, ActionType.SPELL} /\ wf # NoWorkflow

(***************************************************************************)
(* A run and what it has done.  An event of the trace is                   *)
(*   eval   shouldExecute was called for a main-loop action                *)
(*          (x: 1 true, 0 false, 2 raised)                                 *)
(*   main   executeAction was called for a main-loop action                *)
(*          (x: 1 an executor was called, 0 none)                          *)
(*   rec    results.set stored the outcome (x: the run whose ledger it is, *)
(*          s: the success field of the outcome)                           *)
(*   branch executeAction was called for a branch target (x as for main)   *)
(* s is FALSE in the events that are not rec.  end is "summary" when the   *)
(* run emitted its summary notification, with count the number it gives,   *)
(* and "error" when it emitted the run-error notification.                 *)
(***************************************************************************)
Event(k, id, x, s) == [k |-> k, id |-> id, x |-> x, s |-> s]

NewRun(r, t, actions, by) ==
  [id |-> r, token |-> t, by |-> by, actions |-> actions, idx |-> 0, pc |-> "start",
   cur |-> NoId, stopped |-> FALSE, end |-> "none", count |-> 0, clobber |-> FALSE,
   trace |-> <<>>]

NewWorkflow(r, t) == [owner |-> r, token |-> t, results |-> <<>>]

\* The machine a stretch of code works on: the two fields of the executor and the run.
Machine(ex, wf, run) == [ex |-> ex, wf |-> wf, run |-> run]

Log(m, e) == [m EXCEPT !.run.trace = Append(@, e)]

\* A variant of the count that leaves out the actions the run skipped.
SummaryCountDispatched(run) ==
  Cardinality({i \in DOMAIN run.trace : run.trace[i].k = "main"})

\* Lines 109-112: the count of the summary notification is actions.length.
SummaryCount(run) == Len(run.actions)

\* A variant without the finally block: the catch block leaves the guard and
\* the workflow as they are.
FinishWithoutFinally(m, end) ==
  Machine(IF end = "error" THEN m.ex ELSE FALSE,
          IF end = "error" THEN m.wf ELSE NoWorkflow,
          [m.run EXCEPT !.pc = "done", !.end = end, !.cur = NoId,
                        !.count = IF end = "summary" THEN SummaryCount(m.run) ELSE 0,
                        !.clobber = (m.wf # NoWorkflow /\ m.wf.owner # m.run.id)])

\* The end of executeQueue: the summary or the catch block, then finally.
Finish(m, end) ==
  Machine(FALSE, NoWorkflow,
          [m.run EXCEPT !.pc = "done", !.end = end, !.cur = NoId,
                        !.count = IF end = "summary" THEN SummaryCount(m.run) ELSE 0,
                        !.clobber = (m.wf # NoWorkflow /\ m.wf.owner # m.run.id)])

\* A variant that follows onFailure only.
BranchTargetFailureOnly(action, res) ==
  IF ~res.success /\ action.onFailure # NoId THEN action.onFailure ELSE NoId

\* The id named by the branch field that applies to the outcome, NoId if none.
BranchTarget(action, res) ==
  IF res.success /\ action.onSuccess # NoId THEN action.onSuccess
  ELSE IF ~res.success /\ action.onFailure # NoId THEN action.onFailure
  ELSE NoId

\* A variant that treats a branch as a jump: the loop goes on after the target.
BranchJump(m, action, res) ==
  LET j == FindAction(m.run.actions, BranchTarget(action, res), 1)
  IN IF j = 0 THEN [m EXCEPT !.run.pc = "delay", !.run.cur = NoId]
     ELSE LET next == m.run.actions[j]
          IN IF Suspends(next, m.wf)
             THEN Log([m EXCEPT !.run.pc = "branch", !.run.cur = next.id, !.run.idx = j],
                      Event("branch", next.id, 1, FALSE))
             ELSE Log([m EXCEPT !.run.pc = "delay", !.run.cur = NoId, !.run.idx = j],
                      Event("branch", next.id, 0, FALSE))

\* A variant that asks shouldExecute before it dispatches the branch target.
BranchChecked(m, action, res) ==
  LET j == FindAction(m.run.actions, BranchTarget(action, res), 1)
  IN IF j = 0 THEN [m EXCEPT !.run.pc = "delay", !.run.cur = NoId]
     ELSE LET next == m.run.actions[j]
              c == shouldExecute(next, m.wf)
              e == Log(m, Event("eval", next.id, IF c = "true" THEN 1 ELSE 0, FALSE))
          IN IF c # "true" THEN [e EXCEPT !.run.pc = "delay", !.run.cur = NoId]
             ELSE IF Suspends(next, m.wf)
             THEN Log([e EXCEPT !.run.pc = "branch", !.run.cur = next.id],
                      Event("branch", next.id, 1, FALSE))
             ELSE Log([e EXCEPT !.run.pc = "delay", !.run.cur = NoId],
                      Event("branch", next.id, 0, FALSE))

\* Lines 92-106: conditional branching, then the pacing delay.
Branch(m, action, res) ==
  LET j == FindAction(m.run.actions, BranchTarget(action, res), 1)
  IN IF j = 0 THEN [m EXCEPT !.run.pc = "delay", !.run.cur = NoId]
     ELSE LET next == m.run.actions[j]
          IN IF Suspends(next, m.wf)
             THEN Log([m EXCEPT !.run.pc = "branch", !.run.cur = next.id],
                      Event("branch", next.id, 1, FALSE))
             ELSE Log([m EXCEPT !.run.pc = "delay", !.run.cur = NoId],
                      Event("branch", next.id, 0, FALSE))

\* Line 90: store the outcome in the ledger of this.currentWorkflow.
Record(m, action, res) ==
  IF m.wf = NoWorkflow THEN Finish(m, "error")
  ELSE Branch(Log([m EXCEPT !.wf.results = MapSet(@, action.id, res)],
                  Event("rec", action.id, m.wf.owner, res.success)),
              action, res)

\* Line 87: dispatch the main-loop action at index i.
Dispatch(m, i) ==
  LET action == m.run.actions[i]
  IN IF Suspends(action, m.wf)
     THEN Log([m EXCEPT !.run.pc = "exec", !.run.idx = i, !.run.cur = action.id],
              Event("main", action.id, 1, FALSE))
     ELSE Record(Log([m EXCEPT !.run.idx = i], Event("main", action.id, 0, FALSE)),
                 action, executeAction(action, m.wf))

\* A variant that stores a failed outcome for the action it skips.
SkipRecorded(m, action) ==
  Log(Log([m EXCEPT !.wf.results = MapSet(@, action.id, Failure)],
          Event("eval", action.id, 0, FALSE)),
      Event("rec", action.id, m.wf.owner, FALSE))

\* Lines 81-84: the condition is false, the loop continues with nothing done.
Skip(m, action) == Log(m, Event("eval", action.id, 0, FALSE))

\* The for-of loop from its index i to the next suspension of the run.
RECURSIVE Loop(_, _)
Loop(m, i) ==
  IF i > Len(m.run.actions) THEN Finish(m, "summary")
  ELSE LET action == m.run.actions[i]
           c == shouldExecute(action, m.wf)
       IN IF c = "throw" THEN Finish(Log(m, Event("eval", action.id, 2, FALSE)), "error")
          ELSE IF c = "false" THEN Loop(Skip(m, action), i + 1)
          ELSE Dispatch(Log(m, Event("eval", action.id, 1, FALSE)), i)

(***************************************************************************)
(* The state after construction (constructor, lines 9-12) with the queues  *)
(* the tokens carry.                                                       *)
(***************************************************************************)
InitExecutor ==
  /\ executing = FALSE
  /\ currentWorkflow = NoWorkflow
  /\ runs = <<>>

\* T1 carries any of the queues, T2 the default queue.
InitFlags(n, k) ==
  \E q \in Queues(n, k) :
    flags = [t \in Tokens |-> Flag(TRUE, IF t = "T1" THEN q ELSE DefaultQueue(n))]

\* The ids 1..n are those of the stored actions.
InitIds(n) == lastId = n

\* No movement, no combat, no roll in progress, no call in flight.
NoMove == [distance |-> 0, maxDistance |-> 0, walk |-> 0, destination |-> FALSE,
           at |-> 0, result |-> "none"]
NoCombat == [started |-> FALSE, round |-> 0, combatants |-> <<>>]
NoBatch == [list |-> <<>>, idx |-> 0, updates |-> <<>>, pc |-> "done", delay |-> FALSE]

Idle ==
  /\ move = NoMove
  /\ combat = NoCombat
  /\ rolling = FALSE
  /\ batch = NoBatch
  /\ timers = 0
  /\ calls = <<>>

\* Every token has the default actor.
InitActors == actors = [t \in Tokens |-> DefaultActor]

Init ==
  /\ InitFlags(MaxLen, MaxEdits)
  /\ InitExecutor
  /\ InitActors
  /\ InitIds(MaxLen)
  /\ Idle
  /\ budget = [runs |-> MaxRuns, stops |-> MaxStops, busy |-> MaxBusy, ops |-> 0]

InitConc ==
  /\ InitFlags(ConcLen, ConcEdits)
  /\ InitExecutor
  /\ InitActors
  /\ InitIds(ConcLen)
  /\ Idle
  /\ budget = [runs |-> ConcRuns, stops |-> MaxStops, busy |-> MaxBusy, ops |-> 0]

\* T1 carries a queue in which one action has any type.
InitType ==
  /\ \E i \in 1..EvalLen, ty \in AllTypes :
       flags = [t \in Tokens |->
                 Flag(TRUE, IF t = "T1" THEN [DefaultQueue(EvalLen) EXCEPT ![i].type = ty]
                            ELSE DefaultQueue(EvalLen))]
  /\ InitExecutor
  /\ InitActors
  /\ InitIds(EvalLen)
  /\ Idle
  /\ budget = [runs |-> MaxRuns, stops |-> MaxStops, busy |-> MaxBusy, ops |-> 0]

\* T1 carries a queue in which one action has any of the conditions, and
\* has any of the actors.
InitEval ==
  /\ \E i \in 1..EvalLen, c \in AllConditions :
       flags = [t \in Tokens |->
                 Flag(TRUE, IF t = "T1" THEN [DefaultQueue(EvalLen) EXCEPT ![i].conditions = c]
                            ELSE DefaultQueue(EvalLen))]
  /\ InitExecutor
  /\ \E a \in ActorStates : actors = [t \in Tokens |-> IF t = "T1" THEN a ELSE DefaultActor]
  /\ InitIds(EvalLen)
  /\ Idle
  /\ budget = [runs |-> MaxRuns, stops |-> MaxStops, busy |-> MaxBusy, ops |-> 0]

Active(r) == runs[r].pc # "done"

\* Put the machine a stretch of code of run r ends in back into the state.
Commit(r, m) ==
  /\ executing' = m.ex
  /\ currentWorkflow' = m.wf
  /\ runs' = IF r > Len(runs) THEN Append(runs, m.run) ELSE [runs EXCEPT ![r] = m.run]

\* executeQueue returns at its guard (lines 61-64): the call is counted.
Busy ==
  /\ budget.busy > 0
  /\ budget' = [budget EXCEPT !.busy = @ - 1]
  /\ UNCHANGED <<flags, executing, currentWorkflow, runs, actors, lastId, others>>

\* A handler that returns at a guard before it touched anything.
Ignored == UNCHANGED vars

(***************************************************************************)
(* The operations of ActionQueueManager that write the flag.  An operation *)
(* reads the queue with getQueue, builds the new list and hands it to      *)
(* setQueue, which stores it with enabled: true.                           *)
(***************************************************************************)
\* foundry.utils.randomID() called for the k-th time in an operation.
randomID(k) == lastId + k

\* A variant of the write that also replaces the list of the runs of the token.
WriteThrough(t, flag, n) ==
  /\ budget.ops > 0
  /\ budget' = [budget EXCEPT !.ops = @ - 1]
  /\ flags' = [flags EXCEPT ![t] = flag]
  /\ lastId' = lastId + n
  /\ runs' = [r \in DOMAIN runs |->
               IF runs[r].token = t THEN [runs[r] EXCEPT !.actions = flag.actions]
               ELSE runs[r]]
  /\ UNCHANGED <<executing, currentWorkflow, actors, others>>

\* token.document.setFlag(MODULE_ID, FLAG_KEY, flag), after n calls of randomID.
Write(t, flag, n) ==
  /\ budget.ops > 0
  /\ budget' = [budget EXCEPT !.ops = @ - 1]
  /\ flags' = [flags EXCEPT ![t] = flag]
  /\ lastId' = lastId + n
  /\ UNCHANGED <<executing, currentWorkflow, runs, actors, others>>

\* setQueue(token, actions), with n ids drawn by its caller.
setQueue(t, actions, n) == Write(t, Flag(TRUE, actions), n)

\* new ActionQueueItem({type: 'attack'}): the id is drawn, order is 0.
NewAction == ActionQueueItem(randomID(1), ActionType.ATTACK, 0, TRUE, ConditionType.ALWAYS, "", NoId, NoId)

addAction(t, action, n) ==
  LET queue == getQueue(t)
  IN setQueue(t, Append(queue, [action EXCEPT !.order = Len(queue)]), n)

Renumbered(queue) == [i \in DOMAIN queue |-> [queue[i] EXCEPT !.order = i - 1]]

removeAction(t, actionId) ==
  LET queue == getQueue(t)
      filtered == SelectSeq(queue, LAMBDA a : a.id # actionId)
  IN setQueue(t, Renumbered(filtered), 0)

\* Object.assign(action, updates).
Assign(action, updates) ==
  [f \in DOMAIN action |-> IF f \in DOMAIN updates THEN updates[f] ELSE action[f]]

updateAction(t, actionId, updates) ==
  LET queue == getQueue(t)
      i == FindAction(queue, actionId, 1)
  IN IF i = 0 THEN Ignored
     ELSE setQueue(t, [queue EXCEPT ![i] = Assign(queue[i], updates)], 0)

\* The last place of id in actionIds: where forEach sets action.order last.
RECURSIVE LastPlace(_, _, _)
LastPlace(actionIds, id, i) ==
  IF i = 0 THEN 0
  ELSE IF actionIds[i] = id THEN i
  ELSE LastPlace(actionIds, id, i - 1)

\* Lines 205-211: every id that is found pushes the action queue.find gives,
\* an object that carries the order it was given last.
RECURSIVE Reordered(_, _, _)
Reordered(queue, actionIds, i) ==
  IF i > Len(actionIds) THEN <<>>
  ELSE LET j == FindAction(queue, actionIds[i], 1)
           rest == Reordered(queue, actionIds, i + 1)
       IN IF j = 0 THEN rest
          ELSE <<[queue[j] EXCEPT
                    !.order = LastPlace(actionIds, actionIds[i], Len(actionIds)) - 1]>> \o rest

reorderActions(t, actionIds) == setQueue(t, Reordered(getQueue(t), actionIds, 1), 0)

clearQueue(t) == setQueue(t, <<>>, 0)

setQueueEnabled(t, enabled) == Write(t, Flag(enabled, getQueue(t)), 0)

duplicateAction(t, actionId) ==
  LET queue == getQueue(t)
      i == FindAction(queue, actionId, 1)
  IN IF i = 0 THEN Ignored
     ELSE setQueue(t, Append(queue, [queue[i] EXCEPT !.id = randomID(1), !.order = Len(queue)]), 1)

(***************************************************************************)
(* Export and import.  A JSON text is modelled by what JSON.parse makes of *)
(* it: ok is FALSE when the text does not parse, hasActions is FALSE when  *)
(* the value has no array 'actions'; an object of the array has the fields *)
(* the text gives it.  toObject gives every field a JSON value, so the     *)
(* text of an export parses to the objects that were exported.             *)
(***************************************************************************)
Json(ok, hasActions, actions) == [ok |-> ok, hasActions |-> hasActions, actions |-> actions]

\* A variant of toObject that leaves the data of the action out.
toObjectWithoutData(a) ==
  [f \in DOMAIN a \ {"data"} |-> a[f]]

\* toObject(): a plain object with the fields of the item.
toObject(a) ==
  [f \in {"id", "type", "order", "enabled", "conditions", "data", "onSuccess", "onFailure"}
     |-> a[f]]

exportQueue(t) == Json(TRUE, TRUE, [i \in DOMAIN getQueue(t) |-> toObject(getQueue(t)[i])])

Field(obj, f, default) == IF f \in DOMAIN obj THEN obj[f] ELSE default

\* ActionQueueItem.fromObject(obj): the constructor with its defaults.  The id
\* is replaced by the import in either mode.
fromObject(obj) ==
  [ActionQueueItem(Field(obj, "id", NoId),
                   Field(obj, "type", ActionType.MOVEMENT),
                   Field(obj, "order", 0),
                   Field(obj, "enabled", TRUE),
                   Field(obj, "conditions", Condition(ConditionType.ALWAYS, "")).type,
                   Field(obj, "conditions", Condition(ConditionType.ALWAYS, "")).value,
                   Field(obj, "onSuccess", NoId),
                   Field(obj, "onFailure", NoId))
     EXCEPT !.data = Field(obj, "data", NoData)]

\* A variant of the import that keeps the ids of the text.
ImportedKeepingIds(actions, startOrder) ==
  [i \in DOMAIN actions |->
     [fromObject(actions[i]) EXCEPT !.order = startOrder + i - 1]]

\* Lines 318-321 and 325-328: new ids, order from startOrder on.
Imported(actions, startOrder) ==
  [i \in DOMAIN actions |->
     [fromObject(actions[i]) EXCEPT !.id = randomID(i), !.order = startOrder + i - 1]]

\* What importQueue returns: false from the catch block, else what setQueue
\* returns.
importQueueReturns(json) == json.ok /\ json.hasActions

importQueue(t, json, append) ==
  IF ~json.ok \/ ~json.hasActions THEN Ignored
  ELSE IF append
       THEN setQueue(t, getQueue(t) \o Imported(json.actions, Len(getQueue(t))),
                     Len(json.actions))
       ELSE setQueue(t, Imported(json.actions, 0), Len(json.actions))

(***************************************************************************)
(* What the callers of the manager pass.                                   *)
(***************************************************************************)
QueueIds(t) == {getQueue(t)[i].id : i \in DOMAIN getQueue(t)} \cup {NoId}

SpellUpdate ==
  [type |-> ActionType.SPELL,
   conditions |-> Condition(ConditionType.HP_THRESHOLD, "< 50"),
   data |-> "{spellId}"]

\* An order value beyond the length of every queue.
FarOrder == QueueLen + MaxOps + 1

Updates == {[enabled |-> FALSE], [order |-> 0], [order |-> FarOrder], SpellUpdate}

IdLists(t) == {<<a>> : a \in QueueIds(t)} \cup {<<a, b>> : a, b \in QueueIds(t)}

JsonTexts ==
  {exportQueue(t) : t \in Tokens}
  \cup {Json(FALSE, FALSE, <<>>), Json(TRUE, FALSE, <<>>),
        Json(TRUE, TRUE, <<[type |-> ActionType.ATTACK]>>)}

AddNew(t) == addAction(t, NewAction, 1)
AddAgain(t) == \E i \in DOMAIN getQueue(t) : addAction(t, getQueue(t)[i], 0)
Remove(t) == \E id \in QueueIds(t) : removeAction(t, id)
Update(t) == \E id \in QueueIds(t), u \in Updates : updateAction(t, id, u)
Reorder(t) == \E ids \in IdLists(t) : reorderActions(t, ids)
Clear(t) == clearQueue(t)
Enable(t) == \E enabled \in BOOLEAN : setQueueEnabled(t, enabled)
Duplicate(t) == \E id \in QueueIds(t) : duplicateAction(t, id)
Import(t) == \E json \in JsonTexts, append \in BOOLEAN : importQueue(t, json, append)

NextQueue ==
  \/ \E t \in Tokens : AddNew(t)
  \/ \E t \in Tokens : AddAgain(t)
  \/ \E t \in Tokens : Remove(t)
  \/ \E t \in Tokens : Update(t)
  \/ \E t \in Tokens : Reorder(t)
  \/ \E t \in Tokens : Clear(t)
  \/ \E t \in Tokens : Enable(t)
  \/ \E t \in Tokens : Duplicate(t)
  \/ \E t \in Tokens : Import(t)

(***************************************************************************)
(* executeQueue(token, actions), from the call to the first suspension.    *)
(***************************************************************************)
\* A variant of the guard that lets every call through.
NeverExecuting == FALSE

\* The guard of executeQueue (line 61).
AlreadyExecuting == executing

executeQueue(t, actions, by) ==
  IF AlreadyExecuting THEN Busy
  ELSE /\ budget.runs > 0
       /\ budget' = [budget EXCEPT !.runs = @ - 1]
       /\ LET r == Len(runs) + 1
          IN Commit(r, Loop(Machine(TRUE, NewWorkflow(r, t), NewRun(r, t, actions, by)), 1))
       /\ UNCHANGED <<flags, actors, lastId, others>>

\* The API call game.tokenAutomation.actionExecutor.executeQueue(token, actions)
\* with the stored queue of the token.
ExecuteQueueCall(t) == executeQueue(t, getQueue(t), "api")

(***************************************************************************)
(* onCombatTurn(combat, updateData, options) for the combatant of token t: *)
(* turn is updateData.turn, NoTurn when the update has no turn field, and  *)
(* owner is token.isOwner || game.user.isGM.  '!updateData.turn' is true   *)
(* for an update without turn field and for the turn index 0.              *)
(***************************************************************************)
NoTurn == -1
TurnValues == {NoTurn, 0, 1}

\* A variant without the ownership check of line 38.
onCombatTurnAnyUser(t, turn, owner) ==
  IF \/ turn = NoTurn \/ turn = 0
     \/ ~isQueueEnabled(t)
     \/ Len(getEnabledActions(t)) = 0
  THEN Ignored
  ELSE executeQueue(t, getEnabledActions(t), "turn")

onCombatTurn(t, turn, owner) ==
  IF \/ turn = NoTurn \/ turn = 0
     \/ ~owner
     \/ ~isQueueEnabled(t)
     \/ Len(getEnabledActions(t)) = 0
  THEN Ignored
  ELSE executeQueue(t, getEnabledActions(t), "turn")

(***************************************************************************)
(* The executor call run r waits for resolves to res.                      *)
(***************************************************************************)
ExecutorReturns(r) ==
  /\ runs[r].pc \in {"exec", "branch"}
  /\ LET run == runs[r]
         m == Machine(executing, currentWorkflow, run)
         action == run.actions[FindAction(run.actions, run.cur, 1)]
     IN \E res \in ExecutorOutcomes(action.type) :
          IF run.pc = "exec"
          THEN Commit(r, Record(m, run.actions[run.idx], res))
          ELSE Commit(r, [m EXCEPT !.run.pc = "delay", !.run.cur = NoId])
  /\ UNCHANGED <<flags, budget, actors, lastId, others>>

\* The pacing timer of run r fires (line 106): the loop takes its next action.
NextIndex(i) == i + 1

TimerFires(r) ==
  /\ runs[r].pc = "delay"
  /\ Commit(r, Loop(Machine(executing, currentWorkflow, runs[r]), NextIndex(runs[r].idx)))
  /\ UNCHANGED <<flags, budget, actors, lastId, others>>

(***************************************************************************)
(* stopExecution().                                                        *)
(***************************************************************************)
stopExecution ==
  IF executing
  THEN /\ budget.stops > 0
       /\ budget' = [budget EXCEPT !.stops = @ - 1]
       /\ executing' = FALSE
       /\ currentWorkflow' = NoWorkflow
       /\ runs' = [r \in DOMAIN runs |->
                    IF Active(r) THEN [runs[r] EXCEPT !.stopped = TRUE] ELSE runs[r]]
       /\ UNCHANGED <<flags, actors, lastId, others>>
  ELSE Ignored

(***************************************************************************)
(* getStatus(): currentToken is NULL and actionsCompleted is 0 when there  *)
(* is no workflow ('?.' and '|| null', '|| 0').                            *)
(***************************************************************************)
getStatus ==
  [executing |-> executing,
   currentToken |-> IF currentWorkflow = NoWorkflow THEN NULL ELSE currentWorkflow.token,
   actionsCompleted |-> IF currentWorkflow = NoWorkflow THEN 0
                        ELSE Len(currentWorkflow.results)]

Next ==
  \/ \E t \in Tokens : ExecuteQueueCall(t)
  \/ \E t \in Tokens, turn \in TurnValues, owner \in BOOLEAN : onCombatTurn(t, turn, owner)
  \/ \E r \in DOMAIN runs : ExecutorReturns(r)
  \/ \E r \in DOMAIN runs : TimerFires(r)
  \/ stopExecution

Spec == Init /\ [][Next]_vars

SpecConc == InitConc /\ [][Next]_vars

SpecEval == InitEval /\ [][Next]_vars

SpecType == InitType /\ [][Next]_vars

\* T1 carries the default queue and T2 has no flag; the executor stays idle.
InitQueue ==
  /\ flags = [t \in Tokens |-> IF t = "T1" THEN Flag(TRUE, DefaultQueue(QueueLen)) ELSE NoFlag]
  /\ InitExecutor
  /\ InitActors
  /\ InitIds(QueueLen)
  /\ Idle
  /\ budget = [runs |-> 0, stops |-> 0, busy |-> 0, ops |-> MaxOps]

SpecQueue == InitQueue /\ [][NextQueue]_vars

\* Both tokens carry the default queue, in which the first action names the
\* second as its onSuccess target.
InitEdit ==
  /\ flags = [t \in Tokens |->
               Flag(TRUE, [DefaultQueue(QueueLen) EXCEPT ![1].onSuccess = QueueLen])]
  /\ InitExecutor
  /\ InitActors
  /\ InitIds(QueueLen)
  /\ Idle
  /\ budget = [runs |-> MaxRuns, stops |-> MaxStops, busy |-> MaxBusy, ops |-> EditOps]

NextEdit == Next \/ NextQueue

SpecEdit == InitEdit /\ [][NextEdit]_vars

(***************************************************************************)
(* What the properties read.                                               *)
(***************************************************************************)
Runs == DOMAIN runs
ActiveRuns == {r \in Runs : Active(r)}
Trace(r) == runs[r].trace

\* The action of the run's list with the id (the list has it: it dispatched it).
ActionOf(r, id) == runs[r].actions[FindAction(runs[r].actions, id, 1)]
InList(r, id) == FindAction(runs[r].actions, id, 1) # 0

\* The stored action of the run's token with the id, and its place in the stored queue.
StoredIndex(r, id) == FindAction(flags[runs[r].token].actions, id, 1)
Stored(r, id) == flags[runs[r].token].actions[StoredIndex(r, id)]

(***************************************************************************)
(* C1.  While a run is active (executing = true), a further executeQueue   *)
(* call, for any token, starts no run and dispatches nothing, leaves       *)
(* currentWorkflow (with the ledger of the active run) and the guard as    *)
(* they are.                                                               *)
(***************************************************************************)
C1_BusyCallIsNoOp ==
  [][executing =>
       /\ Len(runs') = Len(runs)
       /\ (budget'.busy # budget.busy =>
             UNCHANGED <<flags, executing, currentWorkflow, runs>>)]_vars

\* A call was dropped while a run waits for its executor with outcomes in its ledger.
C1_Witness ==
  /\ executing
  /\ budget.busy < MaxBusy
  /\ currentWorkflow.results # <<>>
  /\ \E r \in Runs : runs[r].pc = "exec" /\ currentWorkflow.owner = r

(***************************************************************************)
(* C2.  At most one executeQueue run is between its start and its finally  *)
(* block at any time.                                                      *)
(***************************************************************************)
C2_SingleFlight == Cardinality(ActiveRuns) <= 1

(***************************************************************************)
(* C3.  A run writes outcomes only into the ledger it created and its      *)
(* finally block resets only the guard and the workflow it set itself.     *)
(***************************************************************************)
C3_RunOwnsLedgerAndGuard ==
  \A r \in Runs :
    /\ ~runs[r].clobber
    /\ \A i \in DOMAIN Trace(r) : Trace(r)[i].k = "rec" => Trace(r)[i].x = r

(***************************************************************************)
(* C4.  Once stopExecution was called during a run, the run evaluates no   *)
(* further condition, dispatches no further action and calls no further    *)
(* executor.                                                               *)
(***************************************************************************)
C4_StoppedRunDoesNothing ==
  [][\A r \in Runs : runs[r].stopped => runs'[r].trace = runs[r].trace]_vars

(***************************************************************************)
(* The events of one kind in a trace, and whether position i of the trace  *)
(* is followed at once by the dispatch of the branch target id.            *)
(***************************************************************************)
Positions(r, k) == {i \in DOMAIN Trace(r) : Trace(r)[i].k = k}

BranchFollows(r, i, id) ==
  /\ i < Len(Trace(r))
  /\ Trace(r)[i + 1].k = "branch"
  /\ Trace(r)[i + 1].id = id

\* i and j are positions of actions that ran in the order the queue gives:
\* by order value, and by place in the stored queue when the values are equal.
InQueueOrder(r, i, j) ==
  LET a == Stored(r, Trace(r)[i].id)
      b == Stored(r, Trace(r)[j].id)
  IN \/ a.order < b.order
     \/ a.order = b.order /\ StoredIndex(r, a.id) < StoredIndex(r, b.id)

(***************************************************************************)
(* C5.  In a run started from a combatTurn event the main-loop actions are *)
(* evaluated and dispatched in non-decreasing order value, actions with    *)
(* equal order in their stored sequence.                                   *)
(***************************************************************************)
C5_TurnRunInOrder ==
  \A r \in Runs : runs[r].by = "turn" =>
    \A k \in {"eval", "main"} :
      \A i, j \in Positions(r, k) : i < j => InQueueOrder(r, i, j)

\* A turn run evaluated two actions of equal order, and one action before another
\* that is stored ahead of it.
C5_Witness ==
  \E r \in Runs :
    /\ runs[r].by = "turn"
    /\ \E i, j \in Positions(r, "eval") :
         i < j /\ Stored(r, Trace(r)[i].id).order = Stored(r, Trace(r)[j].id).order
    /\ \E i, j \in Positions(r, "main") :
         i < j /\ StoredIndex(r, Trace(r)[i].id) > StoredIndex(r, Trace(r)[j].id)

(***************************************************************************)
(* C6 as claimed.  In every run of executeQueue, an action whose enabled   *)
(* flag is false has no condition evaluated and gets no ledger entry.      *)
(***************************************************************************)
DisabledUntouched(r) ==
  \A i \in DOMAIN Trace(r) :
    Trace(r)[i].k \in {"eval", "main", "rec"} => ActionOf(r, Trace(r)[i].id).enabled

C6_EveryRunSkipsDisabled == \A r \in Runs : DisabledUntouched(r)

(***************************************************************************)
(* C6.  In every run started from a combatTurn event, an action whose      *)
(* enabled flag is false is not evaluated, not dispatched from the main    *)
(* loop and gets no ledger entry from the run.                             *)
(***************************************************************************)
C6_TurnRunSkipsDisabled ==
  \A r \in Runs : runs[r].by = "turn" =>
    \A i \in DOMAIN Trace(r) :
      Trace(r)[i].k \in {"eval", "main", "rec"} => Stored(r, Trace(r)[i].id).enabled

\* A turn run went through the whole list of a queue that has a disabled action.
C6_Witness ==
  \E r \in Runs :
    /\ runs[r].by = "turn"
    /\ runs[r].end = "summary"
    /\ Positions(r, "rec") # {}
    /\ \E i \in DOMAIN getQueue(runs[r].token) : ~getQueue(runs[r].token)[i].enabled

C8_BranchOutcomeRecorded ==
  \A r \in Runs :
    \A i \in Positions(r, "branch") :
      (i < Len(Trace(r)) \/ runs[r].pc # "branch") =>
        /\ i < Len(Trace(r))
        /\ Trace(r)[i + 1].k = "rec"
        /\ Trace(r)[i + 1].id = Trace(r)[i].id

(***************************************************************************)
(* C9.  When A fails and A.onFailure = H, H is dispatched at once as a     *)
(* branch; the main loop still takes the actions of its list one by one in *)
(* order, none left out or taken twice, and a run that reaches its summary *)
(* has taken them all (H too, when H comes later in the list).             *)
(***************************************************************************)
IsEval(e) == e.k = "eval"
Evals(r) == SelectSeq(Trace(r), IsEval)

C10_BranchBypassesCondition ==
  \A r \in Runs :
    /\ \A i \in Positions(r, "branch") : i > 1 /\ Trace(r)[i - 1].k = "rec"
    /\ \A i \in Positions(r, "rec") :
         LET a == ActionOf(r, Trace(r)[i].id)
             b == IF Trace(r)[i].s THEN a.onSuccess ELSE a.onFailure
         IN b # NoId /\ InList(r, b) => BranchFollows(r, i, b)

\* A run waits for the executor of a branch target whose condition is false
\* in the workflow of the run.
C10_Witness ==
  \E r \in Runs :
    /\ runs[r].pc = "branch"
    /\ currentWorkflow.owner = r
    /\ shouldExecute(ActionOf(r, runs[r].cur), currentWorkflow) = "false"

(***************************************************************************)
(* C11.  When the condition of a main-loop action evaluates to false, the  *)
(* action is not dispatched and gets no ledger entry, no branch target of  *)
(* it is dispatched, and the loop goes on with the next action of the      *)
(* list: what follows the evaluation is the evaluation of the next action, *)
(* or the summary when the action was the last one.                        *)
(***************************************************************************)
C11_FalseConditionSkips ==
  \A r \in Runs :
    \A i \in Positions(r, "eval") :
      Trace(r)[i].x = 0 =>
        LET id == Trace(r)[i].id
            n == FindAction(runs[r].actions, id, 1)
        IN /\ \A j \in DOMAIN Trace(r) :
                Trace(r)[j].k \in {"main", "rec"} => Trace(r)[j].id # id
           /\ IF i < Len(Trace(r))
              THEN /\ Trace(r)[i + 1].k = "eval"
                   /\ n < Len(runs[r].actions)
                   /\ Trace(r)[i + 1].id = runs[r].actions[n + 1].id
              ELSE /\ n = Len(runs[r].actions)
                   /\ runs[r].end = "summary"

\* A run skipped an action that names a branch target of its list and went on to
\* the action after it.
C11_Witness ==
  \E r \in Runs :
    \E i \in Positions(r, "eval") :
      LET a == ActionOf(r, Trace(r)[i].id)
      IN /\ Trace(r)[i].x = 0
         /\ (a.onSuccess # NoId \/ a.onFailure # NoId)
         /\ i < Len(Trace(r))
         /\ Trace(r)[i + 1].k = "eval"

(***************************************************************************)
(* C12.  A dispatch that fails does not abort the run: a run in which an   *)
(* outcome with success = false was recorded does not end in its catch     *)
(* block, and when it has ended every action of its list was evaluated.    *)
(***************************************************************************)
FailedDispatch(r) == \E i \in Positions(r, "rec") : ~Trace(r)[i].s

C12_FailedDispatchRunGoesOn ==
  \A r \in Runs :
    FailedDispatch(r) =>
      /\ runs[r].end # "error"
      /\ runs[r].pc = "done" => Len(Evals(r)) = Len(runs[r].actions)

(***************************************************************************)
(* C13.  When an accepted executeQueue call returns, from the summary or   *)
(* from the catch block, executing is false and currentWorkflow is null;   *)
(* a call rejected at the guard leaves both as they are.                   *)
(***************************************************************************)
Returns(r) == runs'[r].pc = "done" /\ (r \notin DOMAIN runs \/ runs[r].pc # "done")

C13_ReturnClearsGuard ==
  [][/\ \A r \in DOMAIN runs' :
          Returns(r) => ~executing' /\ currentWorkflow' = NoWorkflow
     /\ budget'.busy # budget.busy =>
          executing' = executing /\ currentWorkflow' = currentWorkflow]_vars

\* One run has returned from its catch block and one from its summary, and a
\* call was rejected at the guard.
C13_Witness ==
  /\ ~executing
  /\ currentWorkflow = NoWorkflow
  /\ budget.busy < MaxBusy
  /\ \E r \in Runs : runs[r].end = "error"
  /\ \E r \in Runs : runs[r].end = "summary"

(***************************************************************************)
(* C14.  A run emits the run-error notification only when something       *)
(* outside the dispatch of an action fails: the run ends in its catch      *)
(* block only from the evaluation of a condition that raises in the        *)
(* workflow of the run itself.  A failing executor or a stopExecution      *)
(* call never brings a run to its catch block.                             *)
(***************************************************************************)
RaisesInOwnWorkflow(r, id) ==
  shouldExecute(ActionOf(r, id), NewWorkflow(r, runs[r].token)) = "throw"

C14_ErrorOnlyOutsideDispatch ==
  \A r \in Runs :
    runs[r].end = "error" =>
      /\ Trace(r) # <<>>
      /\ LET e == Trace(r)[Len(Trace(r))]
         IN e.k = "eval" /\ e.x = 2 /\ RaisesInOwnWorkflow(r, e.id)

(***************************************************************************)
(* The condition of the action an event is about, and the actor of the     *)
(* run's token.                                                            *)
(***************************************************************************)
ConditionAt(r, i) == ActionOf(r, Trace(r)[i].id).conditions
ActorOf(r) == actors[runs[r].token]

\* Position i of the trace is followed at once by the main-loop dispatch of its action.
DispatchFollows(r, i) ==
  /\ i < Len(Trace(r))
  /\ Trace(r)[i + 1].k = "main"
  /\ Trace(r)[i + 1].id = Trace(r)[i].id

\* hp / max * 100 compared with the number of the threshold value.
HpHolds(v, a) ==
  CASE v = "< 50" -> a.hp * 100 < 50 * a.max
    [] v = "<= 50" -> a.hp * 100 <= 50 * a.max
    [] v = "> 50" -> a.hp * 100 > 50 * a.max
    [] v = ">= 50" -> a.hp * 100 >= 50 * a.max

(***************************************************************************)
(* C15.  During a run, an action whose condition is hpThreshold "<op> N"   *)
(* is dispatched iff currentHP / maxHP * 100 op N holds for the actor of   *)
(* the run: the evaluation gives true and the dispatch follows when it     *)
(* holds, and gives false when it does not.                                *)
(***************************************************************************)
C15_HpThresholdDecides ==
  \A r \in Runs :
    \A i \in Positions(r, "eval") :
      LET c == ConditionAt(r, i)
      IN c.type = ConditionType.HP_THRESHOLD /\ c.value \in ThresholdValues =>
           IF HpHolds(c.value, ActorOf(r))
           THEN Trace(r)[i].x = 1 /\ DispatchFollows(r, i)
           ELSE Trace(r)[i].x = 0

(***************************************************************************)
(* C16.  During a run, resourceAvailable "spell-slot-3" evaluates to false *)
(* when the actor of the run has no level-3 slot left and to true when it  *)
(* has one or more; resourceAvailable "resource-primary" evaluates to true *)
(* iff the current value of the pool is greater than 0.                    *)
(***************************************************************************)
C16_ResourceDecides ==
  \A r \in Runs :
    \A i \in Positions(r, "eval") :
      LET c == ConditionAt(r, i)
      IN c.type = ConditionType.RESOURCE_AVAILABLE =>
           /\ IsSpellSlotRef(c.value) =>
                Trace(r)[i].x = (IF ActorOf(r).slots > 0 THEN 1 ELSE 0)
           /\ IsResourceRef(c.value) =>
                Trace(r)[i].x = (IF ActorOf(r).pool > 0 THEN 1 ELSE 0)

(***************************************************************************)
(* C17.  The evaluation of a condition never raises and never aborts a     *)
(* run: for every condition type and every value it gives true or false,   *)
(* and it gives true for a type that is no ConditionType, for a condition  *)
(* without value and for a threshold value that has no operator and        *)
(* number.                                                                 *)
(***************************************************************************)
FailsOpen(c) ==
  \/ c.type \notin ConditionTypes
  \/ c.type \in {ConditionType.RESOURCE_AVAILABLE, ConditionType.HP_THRESHOLD} /\ c.value = ""
  \/ c.type = ConditionType.HP_THRESHOLD /\ c.value # "" /\ c.value \notin ThresholdValues

C17_EvaluationNeverRaises ==
  \A r \in Runs :
    \A i \in Positions(r, "eval") :
      /\ Trace(r)[i].x \in {0, 1}
      /\ FailsOpen(ConditionAt(r, i)) => Trace(r)[i].x = 1

(***************************************************************************)
(* The conditions a step evaluates.  A stretch of code evaluates its       *)
(* conditions before it stores an outcome, so they are evaluated in the    *)
(* workflow the step starts with: currentWorkflow, or the new workflow of  *)
(* the run the step starts.                                                *)
(***************************************************************************)
TraceBefore(r) == IF r \in DOMAIN runs THEN Len(runs[r].trace) ELSE 0

NewEvals(r) ==
  {i \in DOMAIN runs'[r].trace : i > TraceBefore(r) /\ runs'[r].trace[i].k = "eval"}

NewCondition(r, i) ==
  runs'[r].actions[FindAction(runs'[r].actions, runs'[r].trace[i].id, 1)].conditions

SeenWorkflow(r) ==
  IF r \in DOMAIN runs THEN currentWorkflow ELSE NewWorkflow(r, runs'[r].token)

IsAttackCondition(c) == c.type \in {ConditionType.ATTACK_HIT, ConditionType.ATTACK_MISS}

\* The places of the attack-typed entries of a ledger, in insertion order.
AttackEntries(results) == {j \in DOMAIN results : results[j].res.type = "attack"}

\* What an attackHit / attackMiss condition is when entry e decides it (1 true, 0 false).
DecidedBy(c, e) ==
  IF c.type = ConditionType.ATTACK_HIT
  THEN (IF e.res.hit = "true" THEN 1 ELSE 0)
  ELSE (IF e.res.hit = "false" THEN 1 ELSE 0)

(***************************************************************************)
(* C18.  An attackHit or attackMiss condition evaluated while the ledger   *)
(* of the run has no attack-typed entry, as on the first action of a run,  *)
(* evaluates to true.                                                      *)
(***************************************************************************)
C18_NoAttackYetIsTrue ==
  [][\A r \in DOMAIN runs' :
       \A i \in NewEvals(r) :
         /\ IsAttackCondition(NewCondition(r, i))
         /\ SeenWorkflow(r) # NoWorkflow
         /\ AttackEntries(SeenWorkflow(r).results) = {}
         => runs'[r].trace[i].x = 1]_vars

\* The first action of a run has an attackHit or attackMiss condition and was found
\* true, and so was a later one while the ledger had an entry that is no attack.
C18_Witness ==
  \E r \in Runs :
    /\ Trace(r) # <<>>
    /\ Trace(r)[1].k = "eval"
    /\ Trace(r)[1].x = 1
    /\ IsAttackCondition(ConditionAt(r, 1))
    /\ currentWorkflow.owner = r
    /\ currentWorkflow.results # <<>>
    /\ AttackEntries(currentWorkflow.results) = {}
    /\ \E i \in Positions(r, "eval") :
         i > 1 /\ Trace(r)[i].x = 1 /\ IsAttackCondition(ConditionAt(r, i))

C20_PreviousAttackDecides ==
  [][\A r \in DOMAIN runs' :
       \A i \in NewEvals(r) :
         LET results == SeenWorkflow(r).results
             last == CHOOSE j \in AttackEntries(results) :
                       \A k \in AttackEntries(results) : j >= k
         IN IsAttackCondition(NewCondition(r, i)) /\ AttackEntries(results) # {}
              => runs'[r].trace[i].x = DecidedBy(NewCondition(r, i), results[last])]_vars

(***************************************************************************)
(* The dispatches a step makes for run r, main-loop or branch.             *)
(***************************************************************************)
IsDispatch(e) == e.k \in {"main", "branch"}

NewDispatches(r) ==
  {i \in DOMAIN runs'[r].trace : i > TraceBefore(r) /\ IsDispatch(runs'[r].trace[i])}

HasDispatched(r) ==
  r \in DOMAIN runs /\ \E i \in DOMAIN runs[r].trace : IsDispatch(runs[r].trace[i])

(***************************************************************************)
(* C21.  Between two consecutive dispatches of a run, main-loop or branch, *)
(* the run waits one pacing delay: a stretch of code makes at most one     *)
(* dispatch, and it makes a dispatch that is not the first of the run only *)
(* when the pacing timer of the run has fired.                             *)
(***************************************************************************)
C21_DelayBetweenDispatches ==
  [][\A r \in DOMAIN runs' :
       /\ Cardinality(NewDispatches(r)) <= 1
       /\ NewDispatches(r) # {} /\ HasDispatched(r) => runs[r].pc = "delay"]_vars

(***************************************************************************)
(* C22.  When a run completes all its actions, the count of its summary is *)
(* the number of actions the main loop dispatched, the actions skipped for *)
(* a false condition not counted.                                          *)
(***************************************************************************)
C22_SummaryCountsDispatched ==
  \A r \in Runs :
    runs[r].end = "summary" => runs[r].count = Cardinality(Positions(r, "main"))

(***************************************************************************)
(* C23.  In every reachable state getStatus() gives executing = true       *)
(* exactly when a run is active, actionsCompleted equal to the number of   *)
(* outcomes the active run has stored while a run is active, and no value  *)
(* for actionsCompleted when no run is active.                             *)
(***************************************************************************)
C23_StatusSnapshot ==
  /\ getStatus.executing <=> ActiveRuns # {}
  /\ \A r \in ActiveRuns : getStatus.actionsCompleted = Cardinality(Positions(r, "rec"))
  /\ ActiveRuns = {} => getStatus.actionsCompleted \notin Nat

(***************************************************************************)
(* C24.  The dispatch of an action of type spell or reaction takes the     *)
(* path of an attack: it calls an executor when an attack would, and the   *)
(* call resolves to what the attack executor resolves to.                  *)
(***************************************************************************)
DispatchedAction(r, i) == runs'[r].actions[FindAction(runs'[r].actions, runs'[r].trace[i].id, 1)]

AsAttack(a) == [a EXCEPT !.type = ActionType.ATTACK]

C24_SpellAndReactionAsAttack ==
  [][\A r \in DOMAIN runs' :
       \A i \in NewDispatches(r) :
         /\ runs'[r].trace[i].k = "main"
         /\ DispatchedAction(r, i).type \in {ActionType.SPELL, ActionType.REACTION}
         => /\ runs'[r].trace[i].x =
                 (IF Suspends(AsAttack(DispatchedAction(r, i)), SeenWorkflow(r)) THEN 1 ELSE 0)
            /\ ExecutorOutcomes(DispatchedAction(r, i).type) = ExecutorOutcomes(ActionType.ATTACK)]_vars

(***************************************************************************)
(* C26.  A combatTurn event that makes a token the current combatant, at   *)
(* any turn index, the index 0 of the first combatant included, starts a   *)
(* run of the queue of the token when the user owns the token or is GM,    *)
(* the queue is enabled and has an enabled action, and no run is active.   *)
(***************************************************************************)
TurnRunStarts(t) ==
  /\ Len(runs') = Len(runs) + 1
  /\ runs'[Len(runs')].token = t
  /\ runs'[Len(runs')].by = "turn"
  /\ runs'[Len(runs')].actions = getEnabledActions(t)

C26_EveryTurnStartsRun ==
  \A t \in Tokens, turn \in TurnValues \ {NoTurn} :
    /\ isQueueEnabled(t)
    /\ Len(getEnabledActions(t)) > 0
    /\ ActiveRuns = {}
    /\ ~executing
    /\ budget.runs > 0
    => ENABLED (onCombatTurn(t, turn, TRUE) /\ TurnRunStarts(t))

(***************************************************************************)
(* C25.  Operations of the queue manager on the stored queue while a run   *)
(* is in progress do not change which actions the run evaluates,           *)
(* dispatches or resolves as branch targets, nor their order: no step      *)
(* changes the list a run was started with, an operation of the manager    *)
(* changes nothing of the executor, and every run evaluates the actions of *)
(* its list in sequence, dispatches those it found true and resolves the   *)
(* branch targets in its list.                                             *)
(***************************************************************************)
RunFollowsList(r) ==
  /\ \A n \in DOMAIN Evals(r) : Evals(r)[n].id = runs[r].actions[n].id
  /\ \A i \in Positions(r, "main") :
       /\ i > 1
       /\ Trace(r)[i - 1] = Event("eval", Trace(r)[i].id, 1, FALSE)
  /\ \A i \in Positions(r, "rec") :
       LET a == ActionOf(r, Trace(r)[i].id)
           b == IF Trace(r)[i].s THEN a.onSuccess ELSE a.onFailure
       IN IF b # NoId /\ InList(r, b)
          THEN BranchFollows(r, i, b)
          ELSE ~(i < Len(Trace(r)) /\ Trace(r)[i + 1].k = "branch")

C25_EditsLeaveRunAlone ==
  [][/\ \A r \in DOMAIN runs : runs'[r].actions = runs[r].actions
     /\ budget'.ops # budget.ops => UNCHANGED <<executing, currentWorkflow, runs>>
     /\ \A r \in DOMAIN runs' : RunFollowsList(r)']_vars

\* A run that has actions of its list still to take is waiting, and the stored
\* queue of its token is no longer the one it was started from.
C25_Witness ==
  \E r \in Runs :
    /\ Active(r)
    /\ runs[r].idx < Len(runs[r].actions)
    /\ Trace(r) # <<>>
    /\ budget.ops < EditOps
    /\ runs[r].actions # (IF runs[r].by = "turn" THEN getEnabledActions(runs[r].token)
                          ELSE getQueue(runs[r].token))
    /\ \A t \in Tokens \ {runs[r].token} :
         getQueue(t) = [DefaultQueue(QueueLen) EXCEPT ![1].onSuccess = QueueLen]

(***************************************************************************)
(* C27.  onCombatTurn starts a run only when the update carries a turn,    *)
(* the user owns the token of the combatant or is GM, the queue of the     *)
(* token is enabled and has at least one enabled action; in every other    *)
(* case it starts no run, dispatches nothing and changes no state.         *)
(***************************************************************************)
TurnConditions(t, turn, owner) ==
  /\ turn # NoTurn
  /\ owner
  /\ isQueueEnabled(t)
  /\ Len(getEnabledActions(t)) > 0

C27_TurnRunOnlyWhenAllowed ==
  \A t \in Tokens, turn \in TurnValues, owner \in BOOLEAN :
    /\ ENABLED (onCombatTurn(t, turn, owner) /\ Len(runs') > Len(runs))
         => TurnConditions(t, turn, owner)
    /\ ~TurnConditions(t, turn, owner)
         => ~ENABLED (onCombatTurn(t, turn, owner) /\ vars' # vars)

\* The handler has started a run of one token, and the queue of another token,
\* which has had no run, is disabled or has no enabled action.
C27_Witness ==
  \E r \in Runs :
    /\ runs[r].by = "turn"
    /\ \E t \in Tokens :
         /\ \A q \in Runs : runs[q].token # t
         /\ ~isQueueEnabled(t) \/ Len(getEnabledActions(t)) = 0

(***************************************************************************)
(* C28.  In every reachable state of the stored queue of a token, after    *)
(* any sequence of operations of the manager, no two actions of the queue  *)
(* have the same id.                                                       *)
(***************************************************************************)
UniqueIds(queue) ==
  \A i, j \in DOMAIN queue : i # j => queue[i].id # queue[j].id

C28_IdsUnique == \A t \in Tokens : UniqueIds(getQueue(t))

(***************************************************************************)
(* C29.  importQueue with append = false replaces the queue of the token   *)
(* by exactly the imported actions, in the sequence of the text, each      *)
(* with an id that no stored action has and that was never given before,   *)
(* and with the order values 0..n-1; nothing of the previous queue stays.  *)
(***************************************************************************)
ValidTexts == {json \in JsonTexts : json.ok /\ json.hasActions}

StoredIds == UNION {{getQueue(t)[i].id : i \in DOMAIN getQueue(t)} : t \in Tokens}

FreshId(id) == id > lastId /\ id \notin StoredIds

Replaced(t, json) ==
  LET queue == getQueue(t)'
  IN /\ Len(queue) = Len(json.actions)
     /\ UniqueIds(queue)
     /\ \A i \in DOMAIN queue :
          /\ FreshId(queue[i].id)
          /\ queue[i].order = i - 1
          /\ queue[i] = [fromObject(json.actions[i]) EXCEPT !.id = queue[i].id,
                                                            !.order = i - 1]

C29_ImportReplaces ==
  /\ \A id \in StoredIds : id <= lastId
  /\ \A t \in Tokens, json \in ValidTexts :
       ~ENABLED (importQueue(t, json, FALSE) /\ ~Replaced(t, json))

\* The first operation on the queue of T1 was an import of a text of one
\* action in place of its QueueLen actions.
C29_Witness ==
  /\ budget.ops = MaxOps - 1
  /\ lastId = QueueLen + 1
  /\ getQueue("T1") = <<[fromObject([type |-> ActionType.ATTACK])
                          EXCEPT !.id = QueueLen + 1, !.order = 0]>>

(***************************************************************************)
(* C30.  importQueue with append = true leaves a queue whose order values  *)
(* are exactly 0..n-1, without gap or duplicate, n the number of actions   *)
(* of the queue, whatever the operations of the manager made of the queue  *)
(* before, and every imported action has a fresh id.                       *)
(***************************************************************************)
DenseOrder(queue) ==
  /\ {queue[i].order : i \in DOMAIN queue} = 0 .. (Len(queue) - 1)
  /\ \A i, j \in DOMAIN queue : i # j => queue[i].order # queue[j].order

Appended(t, json) ==
  LET queue == getQueue(t)'
      n == Len(getQueue(t))
  IN /\ Len(queue) = n + Len(json.actions)
     /\ DenseOrder(queue)
     /\ \A i \in DOMAIN json.actions : FreshId(queue[n + i].id)

C30_AppendKeepsOrderDense ==
  \A t \in Tokens, json \in ValidTexts :
    ~ENABLED (importQueue(t, json, TRUE) /\ ~Appended(t, json))

(***************************************************************************)
(* C31.  exportQueue followed by importQueue in replace mode gives a queue *)
(* with as many actions, in the same sequence, each with the type, the     *)
(* conditions and the data of the exported one (the ids may differ); an    *)
(* import of a text that does not parse, or of data without an array of    *)
(* actions, returns false and leaves the stored queue as it was.           *)
(***************************************************************************)
SameContent(a, b) ==
  /\ a.type = b.type
  /\ a.conditions = b.conditions
  /\ a.data = b.data
  /\ a.enabled = b.enabled

RoundTrip(from, to) ==
  LET exported == getQueue(from)
      queue == getQueue(to)'
  IN /\ Len(queue) = Len(exported)
     /\ \A i \in DOMAIN queue : SameContent(queue[i], exported[i])

C31_ExportImportRoundTrip ==
  /\ \A from, to \in Tokens :
       /\ importQueueReturns(exportQueue(from))
       /\ ~ENABLED (importQueue(to, exportQueue(from), FALSE) /\ ~RoundTrip(from, to))
  /\ \A to \in Tokens, json \in JsonTexts \ ValidTexts, append \in BOOLEAN :
       /\ ~importQueueReturns(json)
       /\ ~ENABLED (importQueue(to, json, append) /\ vars' # vars)

\* The queue of T1, one action of which had been made a spell with a
\* condition and data, was exported and imported in its own place.
C31_Witness ==
  LET queue == getQueue("T1")
  IN /\ budget.ops = MaxOps - 2
     /\ lastId = 2 * QueueLen
     /\ Len(queue) = QueueLen
     /\ \A i \in DOMAIN queue : queue[i].id = QueueLen + i
     /\ \E i \in DOMAIN queue :
          /\ queue[i].type = SpellUpdate.type
          /\ queue[i].conditions = SpellUpdate.conditions
          /\ queue[i].data = SpellUpdate.data

(***************************************************************************)
(* MovementSystem.executeMovement(token, movementData).  Distances are in  *)
(* the units of the scene (feet).  move.distance is what calculateDistance *)
(* gives for the destination, move.destination is FALSE when no            *)
(* destination is found, move.maxDistance is NoMax when movementData has   *)
(* no maxDistance (or 0), move.walk is NoWalk when the actor has no walk   *)
(* speed, and move.at is how far from its start the token stands.          *)
(***************************************************************************)
MoveSteps == 4      \* distances are 0, 10, .. 10 * MoveSteps
NoMax == 0
NoWalk == 0
DefaultWalk == 30

Distances == {10 * k : k \in 0 .. MoveSteps}

\* token.actor?.system.attributes.movement.walk || 30
tokenSpeed(walk) == IF walk = NoWalk THEN DefaultWalk ELSE walk

\* The result of executeMovement and where it leaves the token; updated is
\* FALSE when token.document.update throws.
MovementResult(m, updated) ==
  IF ~m.destination THEN [m EXCEPT !.result = "noDestination"]
  ELSE IF /\ m.maxDistance # NoMax
          /\ m.distance > (IF m.maxDistance # NoMax THEN m.maxDistance
                           ELSE tokenSpeed(m.walk))
       THEN [m EXCEPT !.result = "outOfRange"]
       ELSE IF updated THEN [m EXCEPT !.at = m.distance, !.result = "moved"]
            ELSE [m EXCEPT !.result = "error"]

executeMovement ==
  /\ move.result = "none"
  /\ \E updated \in BOOLEAN : move' = MovementResult(move, updated)
  /\ UNCHANGED <<flags, executing, currentWorkflow, runs, budget, actors, lastId,
                 combat, rolling, batch, timers, calls>>

InitMove ==
  /\ flags = [t \in Tokens |-> NoFlag]
  /\ InitExecutor
  /\ InitActors
  /\ InitIds(0)
  /\ budget = [runs |-> 0, stops |-> 0, busy |-> 0, ops |-> 0]
  /\ move \in [distance : Distances, maxDistance : {NoMax} \cup (Distances \ {0}),
               walk : {NoWalk} \cup (Distances \ {0}), destination : BOOLEAN,
               at : {0}, result : {"none"}]
  /\ combat = NoCombat
  /\ rolling = FALSE
  /\ batch = NoBatch
  /\ timers = 0
  /\ calls = <<>>

NextMove == executeMovement

SpecMove == InitMove /\ [][NextMove]_vars

(***************************************************************************)
(* C32.  executeMovement enforces a distance cap on every move: the cap is *)
(* maxDistance when it is given and the walk speed of the token (30 when   *)
(* the actor has none) when it is not; a destination farther than the cap  *)
(* fails as out of range and the token is not moved.                       *)
(***************************************************************************)
MoveCap == IF move.maxDistance # NoMax THEN move.maxDistance ELSE tokenSpeed(move.walk)

C32_MovementCapped ==
  move.result # "none" /\ move.destination /\ move.distance > MoveCap
    => move.result = "outOfRange" /\ move.at = 0

(***************************************************************************)
(* CombatHooks and InitiativeRoller.  combat.combatants is the list of the *)
(* combatants in the order of their creation: autoInit is                  *)
(* tokenManager.isAutoInitEnabled(token), mayControl is combatant.isOwner  *)
(* || game.user.isGM, byUser is userId === game.user.id || game.user.isGM  *)
(* at the createCombatant hook, initiative is NoInitiative for null, and   *)
(* rollFailed records that a roll for the combatant gave null or that the  *)
(* update that carried its initiative threw.                               *)
(***************************************************************************)
MaxCombatants == 2  \* combatants added to the combat
MaxRound == 2       \* rounds of the combat
MaxRoll == 2        \* initiative totals are 1 .. MaxRoll
NoInitiative == 0

Combatant(autoInit, mayControl, byUser) ==
  [autoInit |-> autoInit, mayControl |-> mayControl, byUser |-> byUser,
   initiative |-> NoInitiative, rollFailed |-> FALSE]

\* getAutoRollCombatants(combat), from the combatant i on.
RECURSIVE AutoRollFrom(_)
AutoRollFrom(i) ==
  IF i > Len(combat.combatants) THEN <<>>
  ELSE LET c == combat.combatants[i]
       IN (IF c.initiative = NoInitiative /\ c.autoInit /\ c.mayControl
           THEN <<i>> ELSE <<>>) \o AutoRollFrom(i + 1)

getAutoRollCombatants == AutoRollFrom(1)

\* The loop of rollForMultipleCombatants from position i of the list on: the
\* first combatant without initiative, or the position after the list.
RECURSIVE NextToRoll(_, _)
NextToRoll(list, i) ==
  IF i > Len(list) THEN i
  ELSE IF combat.combatants[list[i]].initiative = NoInitiative THEN i
       ELSE NextToRoll(list, i + 1)

\* The call b goes on from position i to its next await, or to its end.
Continue(b, i) ==
  LET j == NextToRoll(b.list, i)
  IN IF j <= Len(b.list)
     THEN rolling' = TRUE /\ batch' = [b EXCEPT !.idx = j, !.pc = "roll"]
     ELSE IF b.updates # <<>>
          THEN rolling' = TRUE /\ batch' = [b EXCEPT !.idx = j, !.pc = "update"]
          ELSE rolling' = FALSE /\ batch' = NoBatch

\* The guard of rollForMultipleCombatants (line 54).
AlreadyRolling == rolling

rollForMultipleCombatants(list) ==
  IF AlreadyRolling THEN UNCHANGED <<rolling, batch>>
  ELSE \E delay \in BOOLEAN :
         Continue([list |-> list, idx |-> 0, updates |-> <<>>, pc |-> "roll",
                   delay |-> delay], 1)

\* What onCombatStart, onCombatRound and the timer of onCombatantCreate do.
AutoRoll ==
  IF getAutoRollCombatants = <<>> THEN UNCHANGED <<rolling, batch>>
  ELSE rollForMultipleCombatants(getAutoRollCombatants)

Rest == <<flags, executing, currentWorkflow, runs, budget, actors, lastId, move, calls>>

onCombatantCreate ==
  /\ Len(combat.combatants) < MaxCombatants
  /\ \E autoInit \in BOOLEAN, mayControl \in BOOLEAN, byUser \in BOOLEAN :
       /\ combat' = [combat EXCEPT
                       !.combatants = Append(@, Combatant(autoInit, mayControl, byUser))]
       /\ timers' = IF byUser /\ autoInit THEN timers + 1 ELSE timers
  /\ UNCHANGED <<rolling, batch, Rest>>

CreateTimerFires ==
  /\ timers > 0
  /\ timers' = timers - 1
  /\ AutoRoll
  /\ UNCHANGED <<combat, Rest>>

onCombatStart ==
  /\ ~combat.started
  /\ combat' = [combat EXCEPT !.started = TRUE, !.round = 1]
  /\ AutoRoll
  /\ UNCHANGED <<timers, Rest>>

onCombatRound ==
  /\ combat.started
  /\ combat.round < MaxRound
  /\ combat' = [combat EXCEPT !.round = @ + 1]
  /\ AutoRoll
  /\ UNCHANGED <<timers, Rest>>

\* rollForCombatant resolves for the combatant the call waits for (line 70).
RollResolves ==
  /\ batch.pc = "roll"
  /\ LET i == batch.list[batch.idx]
     IN \E total \in {NoInitiative} \cup (1 .. MaxRoll) :
          IF total = NoInitiative
          THEN /\ combat' = [combat EXCEPT !.combatants[i].rollFailed = TRUE]
               /\ Continue(batch, batch.idx + 1)
          ELSE LET b == [batch EXCEPT !.updates = Append(@, [id |-> i, initiative |-> total])]
               IN /\ IF b.delay /\ batch.idx < Len(batch.list)
                     THEN rolling' = TRUE /\ batch' = [b EXCEPT !.pc = "delay"]
                     ELSE Continue(b, batch.idx + 1)
                  /\ UNCHANGED combat
  /\ UNCHANGED <<timers, Rest>>

\* The delay between two rolls is over (line 80).
RollDelayFires ==
  /\ batch.pc = "delay"
  /\ Continue(batch, batch.idx + 1)
  /\ UNCHANGED <<combat, timers, Rest>>

RECURSIVE Updated(_, _, _)
Updated(combatants, updates, ok) ==
  IF updates = <<>> THEN combatants
  ELSE LET u == Head(updates)
       IN Updated(IF ok THEN [combatants EXCEPT ![u.id].initiative = u.initiative]
                  ELSE [combatants EXCEPT ![u.id].rollFailed = TRUE],
                  Tail(updates), ok)

\* combat.updateEmbeddedDocuments resolves or throws (lines 87, 100-104).
UpdateResolves ==
  /\ batch.pc = "update"
  /\ \E ok \in BOOLEAN :
       combat' = [combat EXCEPT !.combatants = Updated(@, batch.updates, ok)]
  /\ rolling' = FALSE
  /\ batch' = NoBatch
  /\ UNCHANGED <<timers, Rest>>

InitRoll ==
  /\ flags = [t \in Tokens |-> NoFlag]
  /\ InitExecutor
  /\ InitActors
  /\ InitIds(0)
  /\ budget = [runs |-> 0, stops |-> 0, busy |-> 0, ops |-> 0]
  /\ move = NoMove
  /\ combat = NoCombat
  /\ rolling = FALSE
  /\ batch = NoBatch
  /\ timers = 0
  /\ calls = <<>>

NextRoll ==
  \/ onCombatantCreate
  \/ CreateTimerFires
  \/ onCombatStart
  \/ onCombatRound
  \/ RollResolves
  \/ RollDelayFires
  \/ UpdateResolves

SpecRoll == InitRoll /\ [][NextRoll]_vars

\* Timers fire and promises settle.
FairSpecRoll ==
  /\ SpecRoll
  /\ WF_vars(CreateTimerFires)
  /\ WF_vars(RollResolves)
  /\ WF_vars(RollDelayFires)
  /\ WF_vars(UpdateResolves)

(***************************************************************************)
(* C33.  Every combatant whose token has auto-initiative enabled, that the *)
(* user may control and whose initiative is null eventually receives an    *)
(* initiative after it is added to the combat, for every interleaving of   *)
(* the hooks, those that fire while a batch is in progress included (a     *)
(* roll or an update that fails is not counted against the roller); a      *)
(* combatant that has an initiative is never rolled again.  The hooks are  *)
(* events of the host and none has to come: the property is asked only     *)
(* while the combat can still advance a round, so that a behaviour that    *)
(* breaks it ends where the roller has nothing left to do, not where the   *)
(* rounds of the model are used up.                                        *)
(***************************************************************************)
NeedsInitiative(i) ==
  /\ i \in DOMAIN combat.combatants
  /\ combat.combatants[i].autoInit
  /\ combat.combatants[i].mayControl
  /\ combat.combatants[i].byUser
  /\ combat.combatants[i].initiative = NoInitiative

Settled(i) ==
  /\ i \in DOMAIN combat.combatants
  /\ \/ combat.combatants[i].initiative # NoInitiative
     \/ combat.combatants[i].rollFailed

\* The roller has no call in progress and no timer pending.
RollerQuiet == ~rolling /\ batch = NoBatch /\ timers = 0

RoundsUsedUp == combat.round = MaxRound

C33_InitiativeEventuallyRolled ==
  \A i \in 1 .. MaxCombatants : NeedsInitiative(i) ~> (Settled(i) \/ RoundsUsedUp)

(***************************************************************************)
(* Runs over queues whose branch references form every shape: each action  *)
(* of the queue of T1 names any action of the queue, itself included, or   *)
(* none, as onSuccess and as onFailure.                                    *)
(***************************************************************************)
BranchIds(n) == {NoId} \cup (1 .. n)

LinkedQueues(n) ==
  {[i \in 1 .. n |-> [DefaultItem(i) EXCEPT !.onSuccess = s[i], !.onFailure = f[i]]] :
     s \in [1 .. n -> BranchIds(n)], f \in [1 .. n -> BranchIds(n)]}

InitCycle ==
  /\ \E q \in LinkedQueues(EvalLen) :
       flags = [t \in Tokens |-> Flag(TRUE, IF t = "T1" THEN q ELSE DefaultQueue(EvalLen))]
  /\ InitExecutor
  /\ InitActors
  /\ InitIds(EvalLen)
  /\ Idle
  /\ budget = [runs |-> MaxRuns, stops |-> MaxStops, busy |-> MaxBusy, ops |-> 0]

SpecCycle == InitCycle /\ [][Next]_vars

\* Every executor call and every pacing timer eventually returns.
FairSpecCycle ==
  /\ SpecCycle
  /\ \A r \in 1 .. MaxRuns : WF_vars(r \in DOMAIN runs /\ ExecutorReturns(r))
  /\ \A r \in 1 .. MaxRuns : WF_vars(r \in DOMAIN runs /\ TimerFires(r))

(***************************************************************************)
(* C34.  Every accepted run terminates: when every executor call and every *)
(* pacing timer eventually returns, a run over n actions reaches its       *)
(* finally block, and it makes at most 2n dispatches on the way, also when *)
(* an action names itself as branch target or the references form a cycle. *)
(***************************************************************************)
Dispatches(r) == {i \in DOMAIN Trace(r) : IsDispatch(Trace(r)[i])}

DispatchBound == \A r \in Runs : Cardinality(Dispatches(r)) <= 2 * Len(runs[r].actions)

C34_RunTerminates ==
  /\ []DispatchBound
  /\ \A r \in 1 .. MaxRuns : (r \in DOMAIN runs) ~> (r \in DOMAIN runs /\ ~Active(r))

\* A run over a queue whose two actions name each other has reached its end
\* with 2n dispatches.
C34_Witness ==
  \E r \in Runs :
    /\ ~Active(r)
    /\ runs[r].end = "summary"
    /\ Len(runs[r].actions) = EvalLen
    /\ Cardinality(Dispatches(r)) = 2 * EvalLen
    /\ runs[r].actions[1].onSuccess = runs[r].actions[EvalLen].id
    /\ runs[r].actions[EvalLen].onSuccess = runs[r].actions[1].id

(***************************************************************************)
(* C35.  The enabled flag of a queue is changed by setQueueEnabled only:   *)
(* addAction, removeAction, updateAction, reorderActions, duplicateAction, *)
(* clearQueue and importQueue leave isQueueEnabled(token) as it was, so a  *)
(* queue that was disabled stays disabled when its actions are edited.     *)
(* (Stated for the tokens that have the flag of the queue.)                *)
(***************************************************************************)
EnabledChanges(t) == isQueueEnabled(t)' # isQueueEnabled(t)

C35_EditsKeepEnabledFlag ==
  \A t \in Tokens :
    flags[t].set =>
    ~ENABLED (/\ \/ AddNew(t) \/ AddAgain(t) \/ Remove(t) \/ Update(t) \/ Reorder(t)
                 \/ Duplicate(t) \/ Clear(t) \/ Import(t)
              /\ EnabledChanges(t))

(***************************************************************************)
(* C36.  After addAction(token, action) the new action is last in the      *)
(* order of execution: getSortedActions returns it after every action that *)
(* was in the queue, whatever the operations of the manager made of the    *)
(* queue before.                                                           *)
(***************************************************************************)
NewIsLast(t) ==
  LET sorted == getSortedActions(t)'
  IN /\ Len(sorted) = Len(getQueue(t)) + 1
     /\ sorted[Len(sorted)].id = NewAction.id

C36_AddedActionRunsLast ==
  \A t \in Tokens : ~ENABLED (AddNew(t) /\ ~NewIsLast(t))

(***************************************************************************)
(* C37.  removeAction(token, id) removes the action with that id and no    *)
(* other, keeps the remaining actions in the order of execution they had   *)
(* (the order getSortedActions returns), and renumbers their order values  *)
(* to 0..n-1.                                                              *)
(***************************************************************************)
Removed(t, id) ==
  LET before == SelectSeq(getSortedActions(t), LAMBDA a : a.id # id)
      after == getSortedActions(t)'
  IN /\ Len(after) = Len(before)
     /\ \A i \in DOMAIN after : after[i] = [before[i] EXCEPT !.order = i - 1]

C37_RemoveKeepsExecutionOrder ==
  \A t \in Tokens : \A id \in QueueIds(t) \ {NoId} :
    ~ENABLED (removeAction(t, id) /\ ~Removed(t, id))

(***************************************************************************)
(* C38.  Branch links survive the import: after exportQueue followed by    *)
(* importQueue, in replace or in append mode, the onSuccess and onFailure  *)
(* of an imported action that named an action of the exported queue name   *)
(* the imported copy of that action, which is in the resulting queue.      *)
(***************************************************************************)
\* The copy of the exported action i names, where action i named the exported
\* action with the id, the copy of that action.
LinkKept(exported, queue, id, named) ==
  LET j == FindAction(exported, id, 1)
      first == Len(queue) - Len(exported)
  IN id # NoId /\ j # 0 => first >= 0 /\ named = queue[first + j].id

LinksSurvive(from, to) ==
  LET exported == getQueue(from)
      queue == getQueue(to)'
      first == Len(queue) - Len(exported)
  IN /\ first >= 0
     /\ \A i \in DOMAIN exported :
          /\ LinkKept(exported, queue, exported[i].onSuccess, queue[first + i].onSuccess)
          /\ LinkKept(exported, queue, exported[i].onFailure, queue[first + i].onFailure)

C38_BranchLinksSurviveImport ==
  \A from, to \in Tokens, append \in BOOLEAN :
    ~ENABLED (importQueue(to, exportQueue(from), append) /\ ~LinksSurvive(from, to))

(***************************************************************************)
(* C39.  Once an Attack or Spell action of a run has been dispatched and   *)
(* has returned, AttackHit and AttackMiss exclude each other for the rest  *)
(* of the run: exactly one of the two conditions evaluates to true for an  *)
(* action evaluated later, also when the attack ended as a failed outcome. *)
(***************************************************************************)
AttackDone(r) ==
  \E i \in Positions(r, "rec") :
    ActionOf(r, Trace(r)[i].id).type \in {ActionType.ATTACK, ActionType.SPELL}

Holds(ctype) ==
  checkPreviousAttackResult([DefaultItem(1) EXCEPT !.conditions = Condition(ctype, "")],
                            currentWorkflow) = "true"

C39_HitAndMissExclusive ==
  \A r \in ActiveRuns :
    /\ currentWorkflow # NoWorkflow
    /\ currentWorkflow.owner = r
    /\ ~runs[r].stopped
    /\ AttackDone(r)
    => Holds(ConditionType.ATTACK_HIT) # Holds(ConditionType.ATTACK_MISS)

(***************************************************************************)
(* addAction with its await: the call reads the queue, appends the action  *)
(* and hands the new flag to token.document.setFlag (lines 162-168, 142-   *)
(* 148); the flag of the token changes when the write resolves.  calls     *)
(* holds the writes that have not resolved, each with the flag it carries. *)
(***************************************************************************)
MaxCalls == 3       \* addAction calls (SpecOverlap)

addActionCalled(t) ==
  /\ budget.ops > 0
  /\ budget' = [budget EXCEPT !.ops = @ - 1]
  /\ LET queue == getQueue(t)
         action == [NewAction EXCEPT !.order = Len(queue)]
     IN calls' = Append(calls, [token |-> t, flag |-> Flag(TRUE, Append(queue, action))])
  /\ lastId' = lastId + 1
  /\ UNCHANGED <<flags, executing, currentWorkflow, runs, actors,
                 move, combat, rolling, batch, timers>>

\* The write of the call at place i resolves.
setFlagResolves(i) ==
  /\ i \in DOMAIN calls
  /\ flags' = [flags EXCEPT ![calls[i].token] = calls[i].flag]
  /\ calls' = [k \in 1 .. (Len(calls) - 1) |-> IF k < i THEN calls[k] ELSE calls[k + 1]]
  /\ UNCHANGED <<executing, currentWorkflow, runs, budget, actors, lastId,
                 move, combat, rolling, batch, timers>>

InitOverlap ==
  /\ flags = [t \in Tokens |-> IF t = "T1" THEN Flag(TRUE, DefaultQueue(QueueLen)) ELSE NoFlag]
  /\ InitExecutor
  /\ InitActors
  /\ InitIds(QueueLen)
  /\ budget = [runs |-> 0, stops |-> 0, busy |-> 0, ops |-> MaxCalls]
  /\ move = NoMove
  /\ combat = NoCombat
  /\ rolling = FALSE
  /\ batch = NoBatch
  /\ timers = 0
  /\ calls = <<>>

NextOverlap ==
  \/ \E t \in Tokens : addActionCalled(t)
  \/ \E i \in DOMAIN calls : setFlagResolves(i)

SpecOverlap == InitOverlap /\ [][NextOverlap]_vars

(***************************************************************************)
(* C40.  addAction calls on one token that overlap (a call is issued       *)
(* before the flag write of an earlier one has resolved) all take effect:  *)
(* once the writes have resolved, the stored queue of the token holds the  *)
(* new action of every call, with order values that differ.                *)
(***************************************************************************)
AddedIds == (QueueLen + 1) .. lastId

C40_OverlappingAddsBothStored ==
  calls = <<>> =>
    /\ \A id \in AddedIds : \E t \in Tokens : FindAction(getQueue(t), id, 1) # 0
    /\ \A t \in Tokens : \A i, j \in DOMAIN getQueue(t) :
         i # j => getQueue(t)[i].order # getQueue(t)[j].order

====
